---------------------------- MODULE Spec2Model ----------------------------
(***************************************************************************)
(* Model of the demo server's session-token mechanism (src/src/auth.py)    *)
(* and of the routes of src/src/server.py that use it.                     *)
(*                                                                         *)
(* Text is modelled at the level the code works at:                        *)
(*   - a token (str) is a sequence of character codes: 0..63 are the       *)
(*     characters of the URL-safe base64 alphabet (A-Z a-z 0-9 - _), then  *)
(*     "=", "." and one character outside every alphabet;                  *)
(*   - the JSON text (payload_str) is a sequence of bytes, one byte per    *)
(*     JSON lexeme (punctuation, a string literal, a number);              *)
(*   - base64 is the real 3-bytes-to-4-characters radix change;            *)
(*   - HMAC-SHA256 is a keyed 16-bit positional checksum written as hex    *)
(*     digits: deterministic, changed by every single-character            *)
(*     substitution of the message and by every change of key among        *)
(*     Secrets (the two properties of the real MAC the code relies on).    *)
(* Time is counted in hours since the epoch.                               *)
(***************************************************************************)
EXTENDS Integers, Sequences, FiniteSets, TLC

VARIABLES
    now,            \* datetime.utcnow().timestamp(), in hours
    JWT_SECRET,     \* auth.JWT_SECRET, read once at import
    demo_users_db,  \* auth.demo_users_db
    vortex_client,  \* server.vortex_client: TRUE when the SDK imported, FALSE when None
    cookie,         \* the client's "session" cookie: <<>> or <<token>>
    issued,         \* history: the tokens handed out by successful logins
    last,           \* the last request served and its response
    subject,        \* the DemoUser the token functions are applied to
    tok,            \* the string under test and how it was obtained
    res             \* the outcome of the last verify_simple_jwt(tok.str)

vars == <<now, JWT_SECRET, demo_users_db, vortex_client, cookie, issued, last,
          subject, tok, res>>

-----------------------------------------------------------------------------
(* Bounds of the model *)

\* longest groups list of an identity under test
MaxGroups == 2
\* number of clock steps taken
MaxTicks == 3
\* tokens handed out by logins in one run
MaxIssued == 2
\* the first clock reading (positive: the clock is past the epoch)
ClockStart == 1

-----------------------------------------------------------------------------
(* Characters of a token *)

\* "=" (base64 padding)
PadChar == 64
\* "." (the separator of the two segments)
Dot == 65
\* a character that is in neither the base64 nor the hex alphabet
OtherChar == 66

\* the hex digit d as a character: "0".."9" are 52..61, "a".."f" are 26..31
HexChar(d) == IF d < 10 THEN 52 + d ELSE 16 + d

\* the sum of s[lo..hi]
RECURSIVE SumRange(_, _, _)
SumRange(s, lo, hi) ==
    IF lo > hi THEN 0
    ELSE IF lo = hi THEN s[lo]
    ELSE LET mid == (lo + hi) \div 2
         IN  SumRange(s, lo, mid) + SumRange(s, mid + 1, hi)

SumSeq(s) == SumRange(s, 1, Len(s))

\* str.split("."): the pieces between the dots
split(s) ==
    LET dots == { i \in 1..Len(s) : s[i] = Dot }
        \* the position of the k-th dot; 0 and Len(s) + 1 bound the string
        dot(k) == IF k = 0 THEN 0
                  ELSE IF k > Cardinality(dots) THEN Len(s) + 1
                  ELSE CHOOSE i \in dots : Cardinality({ j \in dots : j < i }) = k - 1
    IN  [k \in 1..(Cardinality(dots) + 1) |-> SubSeq(s, dot(k - 1) + 1, dot(k) - 1)]

-----------------------------------------------------------------------------
(* hmac.new(key, msg, sha256).hexdigest() *)

HashModulus == 65521

\* the digest as a number: a positional checksum of the message seeded by the key
Digest(key, msg) ==
    (SumSeq([i \in 1..Len(key) |-> i * key[i]])
       + SumSeq([i \in 1..Len(msg) |-> i * (msg[i] + 1)])) % HashModulus

hexdigest(n) ==
    << HexChar(n \div 4096), HexChar((n \div 256) % 16),
       HexChar((n \div 16) % 16), HexChar(n % 16) >>

\* a digest that does not depend on the key
HmacUnkeyed(key, msg) == hexdigest(Digest(<< >>, msg))

hmac_hexdigest(key, msg) == hexdigest(Digest(key, msg))

-----------------------------------------------------------------------------
(* base64.urlsafe_b64encode / urlsafe_b64decode *)

\* three bytes become four characters; a last group of one or two bytes is
\* padded with "="
urlsafe_b64encode(b) ==
    LET n == Len(b)
        byte(i) == IF i <= n THEN b[i] ELSE 0
        char(j) ==
            LET g == 3 * ((j - 1) \div 4)
                b1 == byte(g + 1)
                b2 == byte(g + 2)
                b3 == byte(g + 3)
            IN  CASE (j - 1) % 4 = 0 -> b1 \div 4
                  [] (j - 1) % 4 = 1 -> (b1 % 4) * 16 + b2 \div 16
                  [] (j - 1) % 4 = 2 ->
                        IF g + 2 > n THEN PadChar ELSE (b2 % 16) * 4 + b3 \div 64
                  [] OTHER -> IF g + 3 > n THEN PadChar ELSE b3 % 64
    IN  [j \in 1..(4 * ((n + 2) \div 3)) |-> char(j)]

\* Characters outside the alphabet are discarded; then the length must be a
\* multiple of four and "=" may only end the last group. binascii.Error is
\* reported as ok = FALSE.
urlsafe_b64decode(s) ==
    LET c == SelectSeq(s, LAMBDA x : x <= PadChar)
        n == Len(c)
        pads == Cardinality({ i \in 1..n : c[i] = PadChar })
        ok == /\ n % 4 = 0
              /\ pads <= 2
              /\ \A i \in 1..(n - pads) : c[i] # PadChar
        sextet(i) == IF c[i] = PadChar THEN 0 ELSE c[i]
        byte(k) ==
            LET g == 4 * ((k - 1) \div 3)
            IN  CASE (k - 1) % 3 = 0 -> sextet(g + 1) * 4 + sextet(g + 2) \div 16
                  [] (k - 1) % 3 = 1 -> (sextet(g + 2) % 16) * 16 + sextet(g + 3) \div 4
                  [] OTHER -> (sextet(g + 3) % 4) * 64 + sextet(g + 4)
    IN  IF ok THEN [ok |-> TRUE, bytes |-> [k \in 1..(3 * (n \div 4) - pads) |-> byte(k)]]
        ELSE [ok |-> FALSE, bytes |-> <<>>]

-----------------------------------------------------------------------------
(* json.dumps / json.loads, one byte per lexeme *)

Punct == << "{", "}", "[", "]", ":", "," >>

\* the string literals that occur in the model's JSON texts
StrTable ==
    << "sub", "userId", "email", "role", "groups", "exp", "type", "id", "name",
       "user-1", "user-2", "admin@example.com", "user@example.com",
       "admin", "user", "team", "organization", "team-1", "org-1",
       "Engineering", "Acme Corp" >>

PunctCode(p) == CHOOSE i \in 1..Len(Punct) : Punct[i] = p
StrBase == Len(Punct)
StrCode(s) == StrBase + (CHOOSE i \in 1..Len(StrTable) : StrTable[i] = s)
NumBase == StrBase + Len(StrTable)
NumCode(n) == NumBase + 1 + n
\* a byte that is no lexeme (and no valid UTF-8 start byte)
BadByte == 255

IsStrCode(c) == c > StrBase /\ c <= NumBase
IsNumCode(c) == c > NumBase /\ c < BadByte

\* JSON values, tagged by their Python type
JStr(s) == [t |-> "str", s |-> s, n |-> 0, items |-> <<>>]
JNum(n) == [t |-> "num", s |-> "", n |-> n, items |-> <<>>]
JList(xs) == [t |-> "list", s |-> "", n |-> 0, items |-> xs]
\* a dict keeps its insertion order: a sequence of [k |-> key, v |-> value]
JDict(kvs) == [t |-> "dict", s |-> "", n |-> 0, items |-> kvs]

RECURSIVE json_dumps(_)
RECURSIVE DumpItems(_, _)
DumpItems(xs, isDict) ==
    IF xs = <<>> THEN <<>>
    ELSE (IF isDict
            THEN << StrCode(xs[1].k), PunctCode(":") >> \o json_dumps(xs[1].v)
            ELSE json_dumps(xs[1]))
         \o (IF Len(xs) > 1 THEN << PunctCode(",") >> ELSE <<>>)
         \o DumpItems(Tail(xs), isDict)

json_dumps(v) ==
    CASE v.t = "str" -> << StrCode(v.s) >>
      [] v.t = "num" -> << NumCode(v.n) >>
      [] v.t = "list" ->
            << PunctCode("[") >> \o DumpItems(v.items, FALSE) \o << PunctCode("]") >>
      [] OTHER ->
            << PunctCode("{") >> \o DumpItems(v.items, TRUE) \o << PunctCode("}") >>

\* The parser: [ok, val, pos], pos being the index after the value read.
ParseFail == [ok |-> FALSE, val |-> JNum(0), pos |-> 0]

RECURSIVE ParseValue(_, _)
RECURSIVE ParseElements(_, _, _)
RECURSIVE ParseMembers(_, _, _)

\* after "[" or after a ",": a value, then "," or "]"
ParseElements(b, i, acc) ==
    LET r == ParseValue(b, i)
    IN  IF ~r.ok \/ r.pos > Len(b) THEN ParseFail
        ELSE IF b[r.pos] = PunctCode("]")
            THEN [ok |-> TRUE, val |-> JList(Append(acc, r.val)), pos |-> r.pos + 1]
        ELSE IF b[r.pos] = PunctCode(",")
            THEN ParseElements(b, r.pos + 1, Append(acc, r.val))
        ELSE ParseFail

\* after "{" or after a ",": a string, ":", a value, then "," or "}"
ParseMembers(b, i, acc) ==
    IF i + 1 > Len(b) \/ ~IsStrCode(b[i]) \/ b[i + 1] # PunctCode(":") THEN ParseFail
    ELSE
        LET r == ParseValue(b, i + 2)
            kv == [k |-> StrTable[b[i] - StrBase], v |-> r.val]
        IN  IF ~r.ok \/ r.pos > Len(b) THEN ParseFail
            ELSE IF b[r.pos] = PunctCode("}")
                THEN [ok |-> TRUE, val |-> JDict(Append(acc, kv)), pos |-> r.pos + 1]
            ELSE IF b[r.pos] = PunctCode(",")
                THEN ParseMembers(b, r.pos + 1, Append(acc, kv))
            ELSE ParseFail

ParseValue(b, i) ==
    IF i > Len(b) THEN ParseFail
    ELSE IF IsStrCode(b[i])
        THEN [ok |-> TRUE, val |-> JStr(StrTable[b[i] - StrBase]), pos |-> i + 1]
    ELSE IF IsNumCode(b[i])
        THEN [ok |-> TRUE, val |-> JNum(b[i] - NumBase - 1), pos |-> i + 1]
    ELSE IF b[i] = PunctCode("[")
        THEN IF i + 1 <= Len(b) /\ b[i + 1] = PunctCode("]")
                THEN [ok |-> TRUE, val |-> JList(<<>>), pos |-> i + 2]
                ELSE ParseElements(b, i + 1, <<>>)
    ELSE IF b[i] = PunctCode("{")
        THEN IF i + 1 <= Len(b) /\ b[i + 1] = PunctCode("}")
                THEN [ok |-> TRUE, val |-> JDict(<<>>), pos |-> i + 2]
                ELSE ParseMembers(b, i + 1, <<>>)
    ELSE ParseFail

\* bytes.decode() then json.loads: ok = FALSE is UnicodeDecodeError or
\* json.JSONDecodeError
json_loads(b) ==
    LET r == ParseValue(b, 1)
    IN  IF (\E i \in 1..Len(b) : b[i] = BadByte) \/ ~r.ok \/ r.pos # Len(b) + 1
            THEN [ok |-> FALSE, val |-> JNum(0)]
            ELSE [ok |-> TRUE, val |-> r.val]

\* key in d, d[key] for a dict (json.loads keeps the last of repeated keys)
HasKey(d, key) == \E i \in 1..Len(d.items) : d.items[i].k = key
GetKey(d, key) ==
    d.items[CHOOSE i \in 1..Len(d.items) :
                /\ d.items[i].k = key
                /\ \A j \in (i + 1)..Len(d.items) : d.items[j].k # key].v

-----------------------------------------------------------------------------
(* auth.py: the data model and the credential check *)

Group(type, id, name) == [type |-> type, id |-> id, name |-> name]

DemoUser(id, email, role, groups) ==
    [id |-> id, email |-> email, role |-> role, groups |-> groups]

UserInDB(id, email, password, role, groups) ==
    [id |-> id, email |-> email, password |-> password, role |-> role,
     groups |-> groups]

\* Optional[...]: None is the empty sequence, a value v is <<v>>
None == <<>>
Some(v) == <<v>>

\* hashlib.sha256(password.encode()).hexdigest(): an ideal hash, injective and
\* never equal to a password
simple_hash(password) == << "sha256", password >>

verify_simple_password(plain_password, hashed_password) ==
    simple_hash(plain_password) = hashed_password

DemoUsersDb ==
    << UserInDB("user-1", "admin@example.com", simple_hash("password123"), "admin",
                << Group("team", "team-1", "Engineering"),
                   Group("organization", "org-1", "Acme Corp") >>),
       UserInDB("user-2", "user@example.com", simple_hash("userpass"), "user",
                << Group("team", "team-1", "Engineering") >>) >>

\* the first record with that email, in the order of the list
get_user_by_email(db, email) ==
    IF \E i \in 1..Len(db) : db[i].email = email
        THEN Some(db[CHOOSE i \in 1..Len(db) :
                        /\ db[i].email = email
                        /\ \A j \in 1..(i - 1) : db[j].email # email])
        ELSE None

\* the password is not compared
AuthenticateAnyPassword(db, email, password) ==
    LET user_db == get_user_by_email(db, email)
    IN  IF user_db = None
            THEN None
            ELSE Some(DemoUser(user_db[1].id, user_db[1].email, user_db[1].role,
                               user_db[1].groups))

authenticate_user(db, email, password) ==
    LET user_db == get_user_by_email(db, email)
    IN  IF user_db = None \/ ~verify_simple_password(password, user_db[1].password)
            THEN None
            ELSE Some(DemoUser(user_db[1].id, user_db[1].email, user_db[1].role,
                               user_db[1].groups))

-----------------------------------------------------------------------------
(* auth.py: issuing and verifying the session token *)

\* timedelta(hours=24)
TokenLifetime == 24

model_dump(group) ==
    JDict(<< [k |-> "type", v |-> JStr(group.type)],
             [k |-> "id", v |-> JStr(group.id)],
             [k |-> "name", v |-> JStr(group.name)] >>)

\* the claim set create_simple_jwt builds
Payload(user, expire) ==
    JDict(<< [k |-> "sub", v |-> JStr(user.email)],
             [k |-> "userId", v |-> JStr(user.id)],
             [k |-> "email", v |-> JStr(user.email)],
             [k |-> "role", v |-> JStr(user.role)],
             [k |-> "groups",
              v |-> JList([i \in 1..Len(user.groups) |-> model_dump(user.groups[i])])],
             [k |-> "exp", v |-> JNum(expire)] >>)

\* payload_b64 + "." + signature
SignedToken(secret, payload_b64) ==
    payload_b64 \o << Dot >> \o hmac_hexdigest(secret, payload_b64)

\* clock and secret are the globals the function reads
create_simple_jwt(user, clock, secret) ==
    LET expire == clock + TokenLifetime
        payload_str == json_dumps(Payload(user, expire))
        payload_b64 == urlsafe_b64encode(payload_str)
    IN  SignedToken(secret, payload_b64)

\* What a piece of the body of verify_simple_jwt does: it returns a value or
\* raises.
Return(v) == [raised |-> FALSE, value |-> v]
Raise == [raised |-> TRUE, value |-> None]

\* Group(**group): group must be a mapping holding the three string fields
GroupOk(g) ==
    /\ g.t = "dict"
    /\ \A f \in {"type", "id", "name"} : HasKey(g, f) /\ GetKey(g, f).t = "str"

\* [Group(**group) for group in payload["groups"]]: iterating a list gives its
\* elements, iterating a dict its keys, and a number cannot be iterated
GroupsOk(gs) ==
    \/ gs.t = "list" /\ \A i \in 1..Len(gs.items) : GroupOk(gs.items[i])
    \/ gs.t = "dict" /\ gs.items = <<>>

BuildGroups(gs) ==
    [i \in 1..Len(gs.items) |->
        Group(GetKey(gs.items[i], "type").s, GetKey(gs.items[i], "id").s,
              GetKey(gs.items[i], "name").s)]

\* the user with id read from the "sub" claim
BuildUserIdFromSub(payload) ==
    IF /\ \A f \in {"sub", "email", "role"} :
              HasKey(payload, f) /\ GetKey(payload, f).t = "str"
       /\ HasKey(payload, "groups")
       /\ GroupsOk(GetKey(payload, "groups"))
    THEN Return(Some(DemoUser(GetKey(payload, "sub").s, GetKey(payload, "email").s,
                              GetKey(payload, "role").s,
                              BuildGroups(GetKey(payload, "groups")))))
    ELSE Raise

\* DemoUser(id=payload["userId"], ...): KeyError or ValidationError, or the user
BuildUser(payload) ==
    IF /\ \A f \in {"userId", "email", "role"} :
              HasKey(payload, f) /\ GetKey(payload, f).t = "str"
       /\ HasKey(payload, "groups")
       /\ GroupsOk(GetKey(payload, "groups"))
    THEN Return(Some(DemoUser(GetKey(payload, "userId").s, GetKey(payload, "email").s,
                              GetKey(payload, "role").s,
                              BuildGroups(GetKey(payload, "groups")))))
    ELSE Raise

\* the comparison turned round: payload.get("exp", 0) > now
ExpCheckReversed(payload, clock) ==
    IF payload.t # "dict" THEN [raised |-> TRUE, expired |-> FALSE]
    ELSE IF ~HasKey(payload, "exp") THEN [raised |-> FALSE, expired |-> 0 > clock]
    ELSE IF GetKey(payload, "exp").t # "num" THEN [raised |-> TRUE, expired |-> FALSE]
    ELSE [raised |-> FALSE, expired |-> GetKey(payload, "exp").n > clock]

\* the token is refused at its expiry instant too: payload.get("exp", 0) <= now
ExpCheckInclusive(payload, clock) ==
    IF payload.t # "dict" THEN [raised |-> TRUE, expired |-> FALSE]
    ELSE IF ~HasKey(payload, "exp") THEN [raised |-> FALSE, expired |-> 0 <= clock]
    ELSE IF GetKey(payload, "exp").t # "num" THEN [raised |-> TRUE, expired |-> FALSE]
    ELSE [raised |-> FALSE, expired |-> GetKey(payload, "exp").n <= clock]

\* payload.get("exp", 0) < now: raises when payload is no dict (AttributeError)
\* or exp is no number (TypeError)
ExpCheck(payload, clock) ==
    IF payload.t # "dict" THEN [raised |-> TRUE, expired |-> FALSE]
    ELSE IF ~HasKey(payload, "exp") THEN [raised |-> FALSE, expired |-> 0 < clock]
    ELSE IF GetKey(payload, "exp").t # "num" THEN [raised |-> TRUE, expired |-> FALSE]
    ELSE [raised |-> FALSE, expired |-> GetKey(payload, "exp").n < clock]

\* at least two parts
SegmentCountAtLeastTwo(parts) == Len(parts) >= 2

\* len(parts) != 2 is the guard; this is its negation
SegmentCountOk(parts) == Len(parts) = 2

\* no comparison at all
SignatureNeverMismatches(signature, expected_signature) == FALSE

\* signature != expected_signature
SignatureMismatch(signature, expected_signature) == signature # expected_signature

\* the statements inside the try block
VerifyBody(token, clock, secret) ==
    LET parts == split(token)
    IN  IF ~SegmentCountOk(parts) THEN Return(None)
        ELSE
        LET payload_b64 == parts[1]
            signature == parts[2]
            expected_signature == hmac_hexdigest(secret, payload_b64)
        IN  IF SignatureMismatch(signature, expected_signature) THEN Return(None)
            ELSE
            LET decoded == urlsafe_b64decode(payload_b64)
            IN  IF ~decoded.ok THEN Raise
                ELSE
                LET loaded == json_loads(decoded.bytes)
                IN  IF ~loaded.ok THEN Raise
                    ELSE
                    LET expiry == ExpCheck(loaded.val, clock)
                    IN  IF expiry.raised THEN Raise
                        ELSE IF expiry.expired THEN Return(None)
                        ELSE BuildUser(loaded.val)

\* no except clause
NoExcept(body) == body

\* try: ... except: return None
TryExcept(body) == IF body.raised THEN Return(None) ELSE body

VerifyCall(token, clock, secret) == TryExcept(VerifyBody(token, clock, secret))

verify_simple_jwt(token, clock, secret) == VerifyCall(token, clock, secret).value

-----------------------------------------------------------------------------
(* The inputs the token functions are applied to *)

\* the values JWT_SECRET may have in a process, as bytes
Secrets == { << 1, 2, 3 >>, << 1, 2, 4 >> }

\* the characters a tampered position is given: "A", "b" (a hex digit too),
\* "=", "." and a character outside the alphabets
TamperChars == { 0, 27, PadChar, Dot, OtherChar }

GroupValues ==
    { Group("team", "team-1", "Engineering"),
      Group("organization", "org-1", "Acme Corp") }

\* every groups list up to MaxGroups long: empty, repeated and reordered ones too
GroupLists == UNION { [1..n -> GroupValues] : n \in 0..MaxGroups }

Identities ==
    { DemoUser(DemoUsersDb[i].id, DemoUsersDb[i].email, DemoUsersDb[i].role, g) :
        i \in 1..Len(DemoUsersDb), g \in GroupLists }

\* the clock moves in steps of half a token lifetime
TickHours == TokenLifetime \div 2
LastTime == ClockStart + MaxTicks * TickHours
Times == { ClockStart + k * TickHours : k \in 0..MaxTicks }

DotCount(s) == Cardinality({ i \in 1..Len(s) : s[i] = Dot })

\* the exp claim written in a token's payload segment
ClaimedExp(token) ==
    GetKey(json_loads(urlsafe_b64decode(split(token)[1]).bytes).val, "exp").n

RemoveAt(s, i) == SubSeq(s, 1, i - 1) \o SubSeq(s, i + 1, Len(s))

\* Claim sets other than the one create_simple_jwt writes, as payload segments:
\*   complete: every claim the DemoUser needs is there and well typed;
\*   hasExp, exp: the exp claim.
Claims(note, seg, complete, hasExp, exp) ==
    [note |-> note, seg |-> seg, complete |-> complete, hasExp |-> hasExp, exp |-> exp]

Encode(payload) == urlsafe_b64encode(json_dumps(payload))

WithoutKey(payload, key) ==
    JDict(SelectSeq(payload.items, LAMBDA kv : kv.k # key))

WithKey(payload, key, value) ==
    JDict(Append(WithoutKey(payload, key).items, [k |-> key, v |-> value]))

ForgedClaims(user, clock) ==
    LET good == Payload(user, clock + TokenLifetime)
        text == json_dumps(good)
    IN    { Claims("exp", Encode(Payload(user, e)), TRUE, TRUE, e) : e \in Times }
     \cup { Claims("no exp", Encode(WithoutKey(good, "exp")), TRUE, FALSE, 0) }
     \cup { Claims(key, Encode(WithoutKey(good, key)), FALSE, TRUE, clock + TokenLifetime) :
                key \in {"userId", "email", "role", "groups"} }
     \cup { Claims(f,
                   Encode(WithKey(good, "groups",
                       JList(Append(GetKey(good, "groups").items,
                           WithoutKey(model_dump(Group("team", "team-1", "Engineering")),
                                      f))))),
                   FALSE, TRUE, clock + TokenLifetime) :
                f \in {"type", "id", "name"} }
     \cup { Claims("no sub", Encode(WithoutKey(good, "sub")), TRUE, TRUE,
                   clock + TokenLifetime),
            Claims("exp is a string", Encode(WithKey(good, "exp", JStr("exp"))),
                   FALSE, FALSE, 0),
            Claims("a list", Encode(JList(<< good >>)), FALSE, FALSE, 0),
            Claims("truncated json", urlsafe_b64encode(RemoveAt(text, Len(text))),
                   FALSE, FALSE, 0),
            Claims("not utf-8", urlsafe_b64encode(Append(text, BadByte)),
                   FALSE, FALSE, 0),
            Claims("not base64", RemoveAt(Encode(good), 1), FALSE, FALSE, 0) }

\* Strings whose number of "." is not one, and a few that have one
RawStrings(user, clock, secret) ==
    LET t == create_simple_jwt(user, clock, secret)
        p == split(t)[1]
        sig == split(t)[2]
    IN  { [note |-> "empty", str |-> <<>>],
          [note |-> "payload only", str |-> p],
          [note |-> "dot removed", str |-> p \o sig],
          [note |-> "token then dot", str |-> t \o << Dot >>],
          [note |-> "dot then token", str |-> << Dot >> \o t],
          [note |-> "token then signature", str |-> t \o << Dot >> \o sig],
          [note |-> "payload then token", str |-> p \o << Dot >> \o t],
          [note |-> "two dots", str |-> << Dot, Dot >>],
          [note |-> "one dot", str |-> << Dot >>],
          [note |-> "no signature", str |-> p \o << Dot >>] }

\* the segment position i of a token lies in
TamperedSegment(token, i) ==
    IF i <= Len(split(token)[1]) THEN "payload" ELSE "signature"

NoToken ==
    [str |-> <<>>, how |-> "none", note |-> "", key |-> <<>>, iat |-> 0,
     complete |-> FALSE, hasExp |-> FALSE, exp |-> 0]

NoResult == [done |-> FALSE, at |-> 0, raised |-> FALSE, value |-> None]

-----------------------------------------------------------------------------
(* The token functions applied to those inputs *)

ServerIdle ==
    UNCHANGED << JWT_SECRET, demo_users_db, vortex_client, cookie, issued, last >>

\* the clock advances, between two calls
Tick ==
    /\ tok.how \notin {"tampered", "raw"}
    /\ last.op = "none"
    /\ now + TickHours <= LastTime
    /\ now' = now + TickHours
    /\ UNCHANGED << JWT_SECRET, demo_users_db, vortex_client, cookie, issued, last,
                    subject, tok, res >>

\* create_simple_jwt(subject), by this process or by one with another secret
Issue(secret) ==
    LET t == create_simple_jwt(subject, now, secret)
    IN  /\ tok.how = "none"
        /\ tok' = [str |-> t,
                   how |-> IF secret = JWT_SECRET THEN "issued" ELSE "foreign",
                   note |-> "", key |-> secret, iat |-> now,
                   complete |-> TRUE, hasExp |-> TRUE, exp |-> ClaimedExp(t)]
        /\ res' = NoResult
        /\ UNCHANGED << now, subject >>
        /\ ServerIdle

\* one character of a token just issued, not the ".", becomes another character
Tamper ==
    /\ tok.how = "issued"
    /\ tok.iat = now
    /\ ~res.done
    /\ \E i \in 1..Len(tok.str), c \in TamperChars :
          /\ tok.str[i] # Dot
          /\ c # tok.str[i]
          /\ tok' = [tok EXCEPT !.str = [tok.str EXCEPT ![i] = c],
                                !.how = "tampered", !.note = TamperedSegment(tok.str, i)]
    /\ res' = NoResult
    /\ UNCHANGED << now, subject >>
    /\ ServerIdle

\* a claim set of the caller's choosing, signed with the process's secret
Forge ==
    /\ tok.how = "none"
    /\ \E f \in ForgedClaims(subject, now) :
          tok' = [str |-> SignedToken(JWT_SECRET, f.seg), how |-> "signed",
                  note |-> f.note, key |-> JWT_SECRET, iat |-> now,
                  complete |-> f.complete, hasExp |-> f.hasExp, exp |-> f.exp]
    /\ res' = NoResult
    /\ UNCHANGED << now, subject >>
    /\ ServerIdle

\* any other string
Present ==
    /\ tok.how = "none"
    /\ \E r \in RawStrings(subject, now, JWT_SECRET) :
          tok' = [NoToken EXCEPT !.str = r.str, !.how = "raw", !.note = r.note]
    /\ res' = NoResult
    /\ UNCHANGED << now, subject >>
    /\ ServerIdle

\* verify_simple_jwt(tok.str)
Verify ==
    /\ tok.how # "none"
    /\ LET r == VerifyCall(tok.str, now, JWT_SECRET)
       IN  res' = [done |-> TRUE, at |-> now, raised |-> r.raised, value |-> r.value]
    /\ UNCHANGED << now, subject, tok >>
    /\ ServerIdle

NoRequest ==
    [op |-> "none", at |-> 0, email |-> "", password |-> "", session |-> None,
     explicit |-> FALSE, sdk |-> FALSE, status |-> 0, detail |-> "", cause |-> "",
     user |-> None]

TokenInit ==
    /\ now = ClockStart
    /\ JWT_SECRET \in Secrets
    /\ demo_users_db = DemoUsersDb
    /\ vortex_client = FALSE
    /\ cookie = None
    /\ issued = {}
    /\ last = NoRequest
    /\ subject \in Identities
    /\ tok = NoToken
    /\ res = NoResult

TokenNext ==
    \/ \E secret \in Secrets : Issue(secret)
    \/ Tamper
    \/ Forge
    \/ Present
    \/ Verify
    \/ Tick

TokenSpec == TokenInit /\ [][TokenNext]_vars

-----------------------------------------------------------------------------
(* server.py: the routes *)

TokenIdle == UNCHANGED << subject, tok, res >>

\* the session cookie is honoured only while the client still holds it
GetCurrentUserHeldOnly(session, clock, secret) ==
    IF session = None \/ session[1] = <<>> \/ session # cookie THEN None
    ELSE verify_simple_jwt(session[1], clock, secret)

\* session is the cookie of the request: None, or Some(string)
get_current_user(session, clock, secret) ==
    IF session = None \/ session[1] = <<>> THEN None
    ELSE verify_simple_jwt(session[1], clock, secret)

\* the e-mails and passwords requests carry
Emails == { "admin@example.com", "user@example.com", "nobody@example.com", "" }
Passwords == { "password123", "userpass", "wrongpass", "" }

\* the session cookies requests carry: none, an empty one, the one the client
\* holds, or any token handed out before (a bearer may keep and replay it)
Sessions == { None, Some(<<>>), cookie } \cup { Some(t.token) : t \in issued }

Response(op, status, detail, user) ==
    [NoRequest EXCEPT !.op = op, !.at = now, !.status = status, !.detail = detail,
                      !.user = user]

\* authenticate_user called directly
Authenticate(email, password) ==
    /\ last.op = "none"
    /\ last' = [Response("authenticate", 0, "",
                         authenticate_user(demo_users_db, email, password))
                  EXCEPT !.email = email, !.password = password]
    /\ UNCHANGED << now, JWT_SECRET, demo_users_db, vortex_client, cookie, issued >>
    /\ TokenIdle

\* POST /api/auth/login
login(email, password) ==
    LET user == authenticate_user(demo_users_db, email, password)
        session_token == create_simple_jwt(user[1], now, JWT_SECRET)
        grant == [token |-> session_token, user |-> user[1], iat |-> now,
                  exp |-> ClaimedExp(session_token)]
    IN  IF email = "" \/ password = "" THEN
            /\ last' = [Response("login", 400, "Email and password required", None)
                          EXCEPT !.email = email, !.password = password]
            /\ UNCHANGED << cookie, issued >>
        ELSE IF user = None THEN
            /\ last' = [Response("login", 200, "Invalid credentials", None)
                          EXCEPT !.email = email, !.password = password]
            /\ UNCHANGED << cookie, issued >>
        ELSE
            /\ Cardinality(issued \cup {grant}) <= MaxIssued
            /\ cookie' = Some(session_token)
            /\ issued' = issued \cup {grant}
            /\ last' = [Response("login", 200, "", user)
                          EXCEPT !.email = email, !.password = password]

Login(email, password) ==
    /\ last.op = "none"
    /\ login(email, password)
    /\ UNCHANGED << now, JWT_SECRET, demo_users_db, vortex_client >>
    /\ TokenIdle

\* POST /api/auth/logout: response.delete_cookie("session")
logout ==
    /\ cookie' = None
    /\ last' = Response("logout", 200, "", None)

Logout ==
    /\ last.op = "none"
    /\ logout
    /\ UNCHANGED << now, JWT_SECRET, demo_users_db, vortex_client, issued >>
    /\ TokenIdle

\* GET /api/auth/me
get_me(session) ==
    LET current_user == get_current_user(session, now, JWT_SECRET)
    IN  last' = [(IF current_user = None
                    THEN Response("me", 401, "Not authenticated", None)
                    ELSE Response("me", 200, "", current_user))
                 EXCEPT !.session = session]

GetMe(session) ==
    /\ last.op = "none"
    /\ get_me(session)
    /\ UNCHANGED << now, JWT_SECRET, demo_users_db, vortex_client, cookie, issued >>
    /\ TokenIdle

\* GET /api/demo/protected
protected_route(session) ==
    LET current_user == get_current_user(session, now, JWT_SECRET)
    IN  last' = [(IF current_user = None
                    THEN Response("protected", 401, "Authentication required", None)
                    ELSE Response("protected", 200, "This is a protected route!",
                                  current_user))
                 EXCEPT !.session = session]

Protected(session) ==
    /\ last.op = "none"
    /\ protected_route(session)
    /\ UNCHANGED << now, JWT_SECRET, demo_users_db, vortex_client, cookie, issued >>
    /\ TokenIdle

\* What the try block of generate_jwt does: it returns the 200 response or
\* raises; cause is the exception raised. explicit: the request body has
\* both user_id and identifiers; sdkOk: JwtPayload(...) and
\* vortex_client.generate_jwt(payload) succeed.
JwtBody(explicit, current_user, sdkOk) ==
    IF ~explicit /\ current_user = None
        THEN [raised |-> TRUE, status |-> 401, detail |-> "Authentication required",
              cause |-> "HTTPException"]
    ELSE IF ~sdkOk
        THEN [raised |-> TRUE, status |-> 0, detail |-> "", cause |-> "sdk error"]
    ELSE [raised |-> FALSE, status |-> 200, detail |-> "jwt", cause |-> ""]

\* except Exception as e: raise HTTPException(status_code=500, ...);
\* HTTPException is an Exception, so the 401 raised in the block is caught too
JwtExcept(body) ==
    IF body.raised
        THEN [raised |-> TRUE, status |-> 500, detail |-> "Failed to generate JWT",
              cause |-> body.cause]
        ELSE body

\* POST /api/vortex/jwt
generate_jwt(explicit, session, sdkOk) ==
    LET current_user == get_current_user(session, now, JWT_SECRET)
        r == JwtExcept(JwtBody(explicit, current_user, sdkOk))
    IN  last' = [(IF ~vortex_client
                    THEN Response("vortex_jwt", 503, "Vortex SDK not available", None)
                    ELSE [Response("vortex_jwt", r.status, r.detail, current_user)
                            EXCEPT !.cause = r.cause])
                 EXCEPT !.session = session, !.explicit = explicit, !.sdk = sdkOk]

GenerateJwt(explicit, session, sdkOk) ==
    /\ last.op = "none"
    /\ generate_jwt(explicit, session, sdkOk)
    /\ UNCHANGED << now, JWT_SECRET, demo_users_db, vortex_client, cookie, issued >>
    /\ TokenIdle

Init ==
    /\ now = ClockStart
    /\ JWT_SECRET \in Secrets
    /\ demo_users_db = DemoUsersDb
    /\ vortex_client \in BOOLEAN
    /\ cookie = None
    /\ issued = {}
    /\ last = NoRequest
    /\ subject = DemoUser("", "", "", <<>>)
    /\ tok = NoToken
    /\ res = NoResult

\* the caller has read the response; the next request can be served
Receive ==
    /\ last.op # "none"
    /\ last' = NoRequest
    /\ UNCHANGED << now, JWT_SECRET, demo_users_db, vortex_client, cookie, issued >>
    /\ TokenIdle

\* one request is served at a time (last.op = "none" guards every route)
Next ==
    \/ \E email \in Emails, password \in Passwords : Authenticate(email, password)
    \/ \E email \in Emails, password \in Passwords : Login(email, password)
    \/ Logout
    \/ \E session \in Sessions : GetMe(session)
    \/ \E session \in Sessions : Protected(session)
    \/ \E explicit \in BOOLEAN, session \in Sessions, sdkOk \in BOOLEAN :
          GenerateJwt(explicit, session, sdkOk)
    \/ Receive
    \/ Tick

Spec == Init /\ [][Next]_vars

-----------------------------------------------------------------------------
(* Properties of the token functions, checked under TokenSpec *)

\* C1: a token issued for an identity, verified under the same secret at any
\* time before its expiry, gives back that identity: id, email, role and the
\* groups in their order.
C1_RoundTrip ==
    (res.done /\ tok.how = "issued" /\ res.at < tok.exp)
        => (~res.raised /\ res.value = Some(subject))

C1_Witness ==
    /\ res.done /\ tok.how = "issued" /\ tok.iat < res.at /\ res.at < tok.exp
    /\ Len(subject.groups) = 2 /\ subject.groups[1] = subject.groups[2]
    /\ res.value = Some(subject)

\* C2: an issued token with one character of its payload segment or of its
\* signature segment replaced by another character gives no identity.
C2_TamperDetected ==
    (res.done /\ tok.how = "tampered") => res.value = None

C2_Witness ==
    /\ res.done /\ tok.how = "tampered" /\ tok.note = "payload"
    /\ DotCount(tok.str) = 1 /\ res.value = None

C4_RejectedAtExpiry ==
    (/\ res.done /\ tok.how \in {"issued", "signed"} /\ tok.complete
     /\ (~tok.hasExp \/ tok.exp <= res.at))
        => res.value = None

\* C4 as the code has it: a correctly signed token is rejected whenever its exp
\* is earlier than the clock and whenever it has no exp; verified exactly at
\* its expiry instant, with its claims complete, it still gives its identity.
C4_RejectedAfterExpiry ==
    (res.done /\ tok.how \in {"issued", "signed"} /\ tok.complete) =>
        /\ (~tok.hasExp \/ tok.exp < res.at) => res.value = None
        /\ (tok.hasExp /\ tok.exp = res.at) => res.value = Some(subject)

C4_Witness ==
    /\ res.done /\ tok.how = "issued" /\ tok.complete /\ tok.hasExp
    /\ tok.exp = res.at /\ res.value = Some(subject)

\* C5: a token issued under one secret gives no identity under another one,
\* before its expiry too.
C5_SecretSensitive ==
    (res.done /\ tok.how = "foreign") => res.value = None

C5_Witness ==
    /\ res.done /\ tok.how = "foreign" /\ tok.key # JWT_SECRET
    /\ res.at < tok.exp /\ res.value = None

\* C6: a string with no "." or with two or more gives no identity and raises
\* nothing, whatever its segments hold.
C6_SegmentCountGuard ==
    (res.done /\ DotCount(tok.str) # 1) => (~res.raised /\ res.value = None)

C6_Witness ==
    /\ res.done /\ tok.note = "token then signature" /\ DotCount(tok.str) = 2
    /\ res.value = None

\* the cases in which verification is to fail
MustFail ==
    \/ DotCount(tok.str) # 1
    \/ tok.how \in {"tampered", "foreign", "raw"}
    \/ tok.how \in {"issued", "signed"}
         /\ (~tok.complete \/ ~tok.hasExp \/ tok.exp < res.at)

\* C7: verification never raises; it gives an identity or None, and every
\* failure (malformed, undecodable, unparseable, signature mismatch, expired,
\* a required claim missing) gives the same None.
C7_UndifferentiatedFailure ==
    res.done => /\ ~res.raised
                /\ Len(res.value) <= 1
                /\ MustFail => res.value = None

C7_Witness ==
    /\ res.done /\ tok.how = "signed" /\ tok.note = "userId"
    /\ ~res.raised /\ res.value = None

-----------------------------------------------------------------------------
(* Properties of the credential check and of the routes, checked under Spec *)

\* the records of the store that match an e-mail and a password
Matching(email, password) ==
    { i \in 1..Len(DemoUsersDb) :
        /\ DemoUsersDb[i].email = email
        /\ DemoUsersDb[i].password = simple_hash(password) }

\* C8: authenticate_user gives an identity exactly when a record of the store
\* has that e-mail and the hash of that password, the identity is that
\* record's id, email, role and groups, and the store is never changed.
C8_CredentialCheck ==
    /\ demo_users_db = DemoUsersDb
    /\ last.op = "authenticate" =>
          /\ last.user # None <=> Matching(last.email, last.password) # {}
          /\ last.user # None =>
                \E i \in Matching(last.email, last.password) :
                    last.user = Some(DemoUser(DemoUsersDb[i].id, DemoUsersDb[i].email,
                                              DemoUsersDb[i].role, DemoUsersDb[i].groups))

C8_Witness ==
    /\ last.op = "authenticate" /\ last.email = "admin@example.com"
    /\ last.password = "password123" /\ last.user # None
    /\ Len(last.user[1].groups) = 2

\* C9: a token handed out by a login verifies at every time before its expiry,
\* whatever logouts and later logins happened: presented as the session cookie
\* to /api/auth/me or the protected route it gives its identity.
C9_NoRevocation ==
    /\ \A t \in issued :
          now < t.exp =>
              get_current_user(Some(t.token), now, JWT_SECRET) = Some(t.user)
    /\ last.op \in {"me", "protected"} =>
          \A t \in issued :
              (last.session = Some(t.token) /\ last.at < t.exp) =>
                  (last.status = 200 /\ last.user = Some(t.user))

C9_Witness ==
    /\ last.op = "me" /\ last.status = 200 /\ cookie = None
    /\ \E t, u \in issued :
          /\ last.session = Some(t.token) /\ last.user = Some(t.user)
          /\ t.iat < u.iat /\ u.user # t.user /\ t.iat < last.at

\* C10: with the Vortex client available, a request with neither an explicit
\* payload nor a session that verifies is answered 401 "Authentication
\* required", and 500 is answered only when the SDK calls fail.
C10_Unauthenticated401 ==
    (last.op = "vortex_jwt" /\ vortex_client) =>
        /\ (~last.explicit /\ last.user = None) =>
              (last.status = 401 /\ last.detail = "Authentication required")
        /\ last.status = 500 => ~last.sdk

=============================================================================
